---- MODULE Spec2Model ----
(***************************************************************************)
(* Model of the message gateway of the repository: the MCPMessage envelope *)
(* factories (mcp/message.py), the MCPRouter (mcp/router.py), the          *)
(* APIRegistry (api/registry.py), the REST and GraphQL connectors          *)
(* (api/connector.py) and the APIClient facade (api/client.py).            *)
(*                                                                         *)
(* Python values are represented as follows.  A dict that is iterated      *)
(* (router._routes, registry._connectors) is a sequence of [key, val]      *)
(* records in insertion order; a dict that is only indexed is a TLA+       *)
(* function.  None, where a message is expected, is the record Absent.     *)
(* An optional dict argument is a sequence of length 0 (None) or 1.        *)
(* A uuid4 message id is the least number above the ids of the envelopes   *)
(* still held (those of the most recent operation); NoId stands for a      *)
(* correlation_id of None.                                                 *)
(***************************************************************************)
EXTENDS Integers, Sequences, FiniteSets, TLC

VARIABLES
    routes,       \* MCPRouter._routes
    middleware,   \* MCPRouter._middleware
    connectors,   \* APIRegistry._connectors
    objs,         \* the connector objects created so far, by object id
    last,         \* the most recent operation: its arguments, result and call log
    pending       \* connector objects whose register_connector call is in flight

vars == <<routes, middleware, connectors, objs, last, pending>>

(***************************************************************************)
(* Bounds of the model.                                                    *)
(***************************************************************************)
MaxIds == 1          \* largest message id an operation may start from
MaxMiddleware == 2   \* length of the middleware pipeline
MaxRoutes == 2       \* (destination, intent) entries in the route table
MaxObjs == 2         \* connector objects created
MaxSetup == 3        \* parts of a setup that uses every component
NumHandlerFns == 2   \* distinct plain handler functions

(***************************************************************************)
(* Input domains.                                                          *)
(***************************************************************************)
Names == {"a", "b"}
ApiDest(name) == "api." \o name
Destinations == {ApiDest(n) : n \in Names}
Intents == {"query", "create", "*"}
Sources == {"client"}

\* Token strings: Lit(t) is the text t, Ph(n) the text "{n}"; StrVal(s) is the
\* parameter value s.
Lit(t) == [ph |-> FALSE, text |-> t]
Ph(n) == [ph |-> TRUE, text |-> n]
StrVal(s) == <<Lit(s)>>
ParameterSets == {<<[key |-> "city", val |-> StrVal("London")]>>}

NoId == 0
Absent == [absent |-> TRUE]
IsAbsent(m) == "absent" \in DOMAIN m
EmptyDict == <<>>
NoneArg == <<>>
Some(d) == <<d>>

\* Python's "x or {}" for an optional dict argument.
OrEmpty(x) == IF Len(x) = 0 THEN EmptyDict
              ELSE IF DOMAIN x[1] = {} THEN EmptyDict ELSE x[1]

(***************************************************************************)
(* Insertion-ordered dicts.                                                *)
(***************************************************************************)
DictHas(d, k) == \E i \in 1..Len(d) : d[i].key = k
DictGet(d, k) == d[CHOOSE i \in 1..Len(d) : d[i].key = k].val
DictSet(d, k, v) ==
    IF DictHas(d, k)
    THEN [i \in 1..Len(d) |-> IF d[i].key = k THEN [key |-> k, val |-> v] ELSE d[i]]
    ELSE Append(d, [key |-> k, val |-> v])
DictKeys(d) == [i \in 1..Len(d) |-> d[i].key]

(***************************************************************************)
(* mcp/message.py                                                          *)
(***************************************************************************)
MessageType == {"request", "response", "error", "event", "notification"}

MCPPayload(intent, parameters, data, metadata) ==
    [intent |-> intent, parameters |-> parameters, data |-> data,
     metadata |-> metadata]

MCPMessage(id, type, source, destination, correlation_id, payload) ==
    [message_id |-> id, message_type |-> type, source |-> source,
     destination |-> destination, correlation_id |-> correlation_id,
     payload |-> payload]

create_request(id, source, destination, intent, parameters, data, metadata, correlation_id) ==
    MCPMessage(id, "request", source, destination, correlation_id,
               MCPPayload(intent, OrEmpty(parameters), OrEmpty(data),
                          OrEmpty(metadata)))

\* A response that keeps the request's addressing instead of swapping it.
create_response_NoSwap(id, request, data, metadata) ==
    MCPMessage(id, "response", request.source, request.destination,
               request.message_id,
               MCPPayload(request.payload.intent, request.payload.parameters,
                          OrEmpty(data), OrEmpty(metadata)))

\* A response that keeps the message_id of the request it answers.
create_response_SameId(id, request, data, metadata) ==
    MCPMessage(request.message_id, "response", request.destination, request.source,
               request.message_id,
               MCPPayload(request.payload.intent, request.payload.parameters,
                          OrEmpty(data), OrEmpty(metadata)))

create_response(id, request, data, metadata) ==
    MCPMessage(id, "response", request.destination, request.source,
               request.message_id,
               MCPPayload(request.payload.intent, request.payload.parameters,
                          OrEmpty(data), OrEmpty(metadata)))

\* An error envelope that puts the error code where the intent belongs.
create_error_CodeAsIntent(id, request, error_code, error_message, details) ==
    MCPMessage(id, "error", request.destination, request.source,
               request.message_id,
               MCPPayload(error_code, request.payload.parameters,
                          [error_code |-> error_code,
                           error_message |-> error_message,
                           details |-> OrEmpty(details)],
                          EmptyDict))

\* An error envelope that carries details only when some were given.
create_error_OptionalDetails(id, request, error_code, error_message, details) ==
    MCPMessage(id, "error", request.destination, request.source,
               request.message_id,
               MCPPayload(request.payload.intent, request.payload.parameters,
                          IF DOMAIN OrEmpty(details) = {}
                          THEN [error_code |-> error_code,
                                error_message |-> error_message]
                          ELSE [error_code |-> error_code,
                                error_message |-> error_message,
                                details |-> OrEmpty(details)],
                          EmptyDict))

create_error(id, request, error_code, error_message, details) ==
    MCPMessage(id, "error", request.destination, request.source,
               request.message_id,
               MCPPayload(request.payload.intent, request.payload.parameters,
                          [error_code |-> error_code,
                           error_message |-> error_message,
                           details |-> OrEmpty(details)],
                          EmptyDict))

(***************************************************************************)
(* api/connector.py                                                        *)
(*                                                                         *)
(* A connector object is a record [name, base_url, api_type, auth_type,    *)
(* headers, auth_params, session_auth, endpoints, queries, mutations];     *)
(* endpoints, queries and mutations are dicts keyed by intent, headers and *)
(* auth_params dicts keyed by name.  A string that is searched and         *)
(* rewritten (an endpoint template, a base URL, str() of a parameter       *)
(* value) is a sequence of tokens: Lit(t) is the literal text t and Ph(n)  *)
(* the text "{n}".  A parameter value is held as its str().  Parameter     *)
(* dicts and parameter mappings are iterated, so they are sequences of     *)
(* [key, val].  The backend is outside the program: each outbound call     *)
(* ends in one of TransportOutcomes, chosen by the environment.            *)
(***************************************************************************)
APIType == {"rest", "graphql"}
AuthType == {"none", "api_key", "basic", "oauth", "bearer", "custom"}

\* The arguments the registry and gateway setups register intents with.
EndpointInfo == [endpoint |-> <<Lit("weather")>>, method |-> "GET", params_mapping |-> NoneArg]
QueryInfo == [query |-> "query Q", params_mapping |-> NoneArg]
MutationInfo == [mutation |-> "mutation M", params_mapping |-> NoneArg]
BaseUrl == <<Lit("http://backend"), Lit("/")>>

\* APIConnector.__init__, RESTConnector.__init__, GraphQLConnector.__init__
NewConnector(name, api_type, auth_type) ==
    [name |-> name, base_url |-> BaseUrl, api_type |-> api_type,
     auth_type |-> auth_type, headers |-> <<>>, auth_params |-> <<>>,
     session_auth |-> <<>>, endpoints |-> <<>>, queries |-> <<>>,
     mutations |-> <<>>]

DictPut(f, k, v) == [x \in DOMAIN f \cup {k} |-> IF x = k THEN v ELSE f[x]]

\* dict.update, dict.get(k, default), del d[k]
DictUpdate(f, g) == [x \in DOMAIN f \cup DOMAIN g |-> IF x \in DOMAIN g THEN g[x] ELSE f[x]]
KwGet(kw, k, default) == IF k \in DOMAIN kw THEN kw[k] ELSE default
DictDel(d, k) == SelectSeq(d, LAMBDA e : e.key # k)

\* APIConnector.set_auth(**kwargs): the connector after the call.
SetAuth(c, kwargs) ==
    LET c2 == [c EXCEPT !.auth_params = DictUpdate(@, kwargs)] IN
    CASE c.auth_type = "api_key" ->
             IF KwGet(kwargs, "key_location", "header") = "header"
             THEN [c2 EXCEPT !.headers = DictPut(@, KwGet(kwargs, "key_name", "api_key"),
                                                 KwGet(kwargs, "key_value", ""))]
             ELSE c2
      [] c.auth_type = "basic" ->
             [c2 EXCEPT !.session_auth = <<KwGet(kwargs, "username", ""),
                                           KwGet(kwargs, "password", "")>>]
      [] c.auth_type = "bearer" ->
             [c2 EXCEPT !.headers = DictPut(@, "Authorization",
                                            "Bearer " \o KwGet(kwargs, "token", ""))]
      [] OTHER -> c2

\* str.upper on the method names used.
Upper(method) ==
    CASE method = "get" -> "GET"
      [] method = "delete" -> "DELETE"
      [] method = "Delete" -> "DELETE"
      [] method = "post" -> "POST"
      [] method = "put" -> "PUT"
      [] OTHER -> method

\* RESTConnector.register_endpoint: the connector after the call.
RegisterEndpoint(c, intent, endpoint, method, params_mapping) ==
    [c EXCEPT !.endpoints = DictPut(@, intent,
                                    [endpoint |-> endpoint, method |-> Upper(method),
                                     params_mapping |-> OrEmpty(params_mapping)])]

\* GraphQLConnector.register_query: the connector after the call.
RegisterQuery(c, intent, query, params_mapping) ==
    [c EXCEPT !.queries = DictPut(@, intent,
                                  [query |-> query,
                                   params_mapping |-> OrEmpty(params_mapping)])]

\* GraphQLConnector.register_mutation: the connector after the call.
RegisterMutation(c, intent, mutation, params_mapping) ==
    [c EXCEPT !.mutations = DictPut(@, intent,
                                    [mutation |-> mutation,
                                     params_mapping |-> OrEmpty(params_mapping)])]

\* What session.request, response.raise_for_status() and response.json() make
\* of one outbound call: "2xx with a JSON object", "2xx with a JSON array",
\* "2xx, body not JSON", "2xx with a GraphQL errors list", "2xx with errors and
\* data", "4xx or 5xx status" (raise_for_status raises HTTPError), "network
\* failure" (session.request raises), and "a 3xx status handed back with a
\* JSON object" (300, 304, or a redirect without Location: session.request
\* returns it and raise_for_status, which raises for 4xx and 5xx only, does
\* not raise).
TransportOutcomes ==
    {"json_object", "json_array", "not_json", "graphql_errors", "errors_and_data",
     "http_error", "network_error", "http_3xx"}

\* Backend bodies: a JSON object is a record; the JSON array [1, 2] is the
\* record JsonArray.
ResponseBody == [temp |-> 15]
JsonArray == [json_array |-> <<1, 2>>]
Raised(exception_type, text) ==
    [ok |-> FALSE, exception_type |-> exception_type, text |-> text]
Returned(v) == [ok |-> TRUE, value |-> v]

\* "tok in s" and s.replace(tok, v) for a one-token needle.
Contains(s, tok) == \E i \in 1..Len(s) : s[i] = tok
RECURSIVE Replace(_, _, _)
Replace(s, tok, v) ==
    IF Len(s) = 0 THEN <<>>
    ELSE (IF Head(s) = tok THEN v ELSE <<Head(s)>>) \o Replace(Tail(s), tok, v)

\* s.rstrip('/') and s.lstrip('/')
RECURSIVE RStripSlash(_)
RStripSlash(s) ==
    IF Len(s) > 0 /\ s[Len(s)] = Lit("/")
    THEN RStripSlash(SubSeq(s, 1, Len(s) - 1)) ELSE s
RECURSIVE LStripSlash(_)
LStripSlash(s) ==
    IF Len(s) > 0 /\ Head(s) = Lit("/") THEN LStripSlash(Tail(s)) ELSE s

\* connector.py:188-191 (and 373-376): the mapped parameters, from entry i of
\* the mapping on.
RECURSIVE ApplyMapping(_, _, _, _)
ApplyMapping(params_mapping, i, parameters, params) ==
    IF i > Len(params_mapping) THEN params
    ELSE LET mcp_param == params_mapping[i].key
             api_param == params_mapping[i].val
         IN ApplyMapping(params_mapping, i + 1, parameters,
                         IF DictHas(parameters, mcp_param)
                         THEN DictSet(params, api_param, DictGet(parameters, mcp_param))
                         ELSE params)

\* connector.py:194-196 (and 379-381): the unmapped parameters added, from
\* entry i of the parameters on.
RECURSIVE AddUnmapped(_, _, _, _)
AddUnmapped(parameters, i, params_mapping, params) ==
    IF i > Len(parameters) THEN params
    ELSE AddUnmapped(parameters, i + 1, params_mapping,
                     IF ~DictHas(params_mapping, parameters[i].key)
                     THEN DictSet(params, parameters[i].key, parameters[i].val)
                     ELSE params)

\* A mapping stage that applies the mapped names after the unmapped ones.
MapParameters_MappedLast(params_mapping, parameters) ==
    ApplyMapping(params_mapping, 1, parameters,
                 AddUnmapped(parameters, 1, params_mapping, <<>>))

\* connector.py:187-196 (and 372-381): mapped names first, then the others.
MapParameters(params_mapping, parameters) ==
    AddUnmapped(parameters, 1, params_mapping,
                ApplyMapping(params_mapping, 1, parameters, <<>>))

\* connector.py:199-203: the loop over list(params.items()), from item i on.
RECURSIVE SubstitutePath(_, _, _, _)
SubstitutePath(items, i, endpoint, params) ==
    IF i > Len(items) THEN [endpoint |-> endpoint, params |-> params]
    ELSE LET placeholder == Ph(items[i].key) IN
         IF Contains(endpoint, placeholder)
         THEN SubstitutePath(items, i + 1,
                             Replace(endpoint, placeholder, items[i].val),
                             DictDel(params, items[i].key))
         ELSE SubstitutePath(items, i + 1, endpoint, params)

\* A placement that sends the parameters in the query string whatever the method.
PlaceParameters_AlwaysQuery(method, params) == [params |-> <<params>>, json |-> <<>>]

\* connector.py:213-216: request['params'] or request['json']; a key the
\* request dict does not hold is an empty Optional.
PlaceParameters(method, params) ==
    IF method \in {"GET", "DELETE"}
    THEN [params |-> <<params>>, json |-> <<>>]
    ELSE [params |-> <<>>, json |-> <<params>>]

\* A connector that adds the key to the query whatever the key_location.
AddQueryAuth_Always(c, request) ==
    IF c.auth_type = "api_key"
    THEN [request EXCEPT !.params =
              <<DictSet(IF Len(@) = 0 THEN <<>> ELSE @[1],
                        KwGet(c.auth_params, "key_name", "api_key"),
                        StrVal(KwGet(c.auth_params, "key_value", "")))>>]
    ELSE request

\* connector.py:219-224
AddQueryAuth(c, request) ==
    IF /\ c.auth_type = "api_key"
       /\ KwGet(c.auth_params, "key_location", "") = "query"
    THEN [request EXCEPT !.params =
              <<DictSet(IF Len(@) = 0 THEN <<>> ELSE @[1],
                        KwGet(c.auth_params, "key_name", "api_key"),
                        StrVal(KwGet(c.auth_params, "key_value", "")))>>]
    ELSE request

\* RESTConnector.format_request
RESTFormatRequest(c, message) ==
    LET intent == message.payload.intent IN
    IF intent \notin DOMAIN c.endpoints
    THEN Raised("ValueError", "No endpoint registered for intent '" \o intent \o "'")
    ELSE LET endpoint_info == c.endpoints[intent]
             mapped == MapParameters(endpoint_info.params_mapping,
                                     message.payload.parameters)
             path == SubstitutePath(mapped, 1, endpoint_info.endpoint, mapped)
             placed == PlaceParameters(endpoint_info.method, path.params)
         IN Returned(AddQueryAuth(c,
                [method |-> endpoint_info.method,
                 url |-> RStripSlash(c.base_url) \o <<Lit("/")>>
                             \o LStripSlash(path.endpoint),
                 headers |-> c.headers,
                 params |-> placed.params,
                 json |-> placed.json]))

\* A connector that knows the query table only.
GraphQLFormatRequest_QueriesOnly(c, message) ==
    LET intent == message.payload.intent IN
    IF intent \notin DOMAIN c.queries
    THEN Raised("ValueError",
                "No query or mutation registered for intent '" \o intent \o "'")
    ELSE LET is_query == intent \in DOMAIN c.queries
             operation_data == IF is_query THEN c.queries[intent]
                               ELSE c.mutations[intent]
             gql_operation == IF is_query THEN operation_data.query
                              ELSE operation_data.mutation
         IN Returned([method |-> "POST", url |-> c.base_url,
                      headers |-> DictPut(c.headers, "Content-Type",
                                          "application/json"),
                      params |-> <<>>,
                      json |-> <<[query |-> gql_operation,
                                  variables |->
                                      MapParameters(operation_data.params_mapping,
                                                    message.payload.parameters)]>>])

\* GraphQLConnector.format_request
GraphQLFormatRequest(c, message) ==
    LET intent == message.payload.intent IN
    IF intent \notin DOMAIN c.queries \cup DOMAIN c.mutations
    THEN Raised("ValueError",
                "No query or mutation registered for intent '" \o intent \o "'")
    ELSE LET is_query == intent \in DOMAIN c.queries
             operation_data == IF is_query THEN c.queries[intent]
                               ELSE c.mutations[intent]
             gql_operation == IF is_query THEN operation_data.query
                              ELSE operation_data.mutation
         IN Returned([method |-> "POST", url |-> c.base_url,
                      headers |-> DictPut(c.headers, "Content-Type",
                                          "application/json"),
                      params |-> <<>>,
                      json |-> <<[query |-> gql_operation,
                                  variables |->
                                      MapParameters(operation_data.params_mapping,
                                                    message.payload.parameters)]>>])

\* format_request of the connector's class
format_request(c, message) ==
    IF c.api_type = "rest" THEN RESTFormatRequest(c, message)
    ELSE GraphQLFormatRequest(c, message)

ConnectorMetadata(c) == [api_name |-> c.name, api_type |-> c.api_type]

\* The "except requests.exceptions.RequestException" arm of process_request.
ApiRequestError(id, message, outcome) ==
    create_error(id, message, "API_REQUEST_ERROR", outcome,
                 Some(IF outcome = "http_error"
                      THEN [status_code |-> "500", response_text |-> "body"]
                      ELSE [status_code |-> "None", response_text |-> "None"]))

\* The "except Exception" arm of process_request.
ProcessingError(id, message, exception_type, text) ==
    create_error(id, message, "PROCESSING_ERROR", text,
                 Some([exception_type |-> exception_type]))

\* What process_request yields: the value returned, the outbound calls made
\* and the bodies format_response was invoked with.
Processed(ret, calls, formatted) ==
    [ret |-> ret, calls |-> calls, formatted |-> formatted]

\* RESTConnector.format_response; a body that is not a JSON object is refused
\* by MCPPayload's validation of data (Dict[str, Any]).
RESTFormatResponse(id, c, api_response_is_dict, api_response, original_message) ==
    IF api_response_is_dict
    THEN Returned(create_response(id, original_message, Some(api_response),
                                  Some(ConnectorMetadata(c))))
    ELSE Raised("ValidationError", "data: value is not a valid dict")

\* connector.py:250-253: response.json(), or {'text': response.text}.
RESTBody(outcome) ==
    CASE outcome = "json_array" -> JsonArray
      [] outcome = "not_json" -> [text |-> "body"]
      [] outcome = "graphql_errors" -> [errors |-> <<"e">>]
      [] outcome = "errors_and_data" -> [errors |-> <<"e">>, data |-> ResponseBody]
      [] OTHER -> ResponseBody

\* A connector whose process_request lets a failure of format_request escape:
\* what it yields is the exception raised.
RESTProcessRequest_Uncaught(id, c, message, outcome) ==
    LET request == RESTFormatRequest(c, message) IN
    IF ~request.ok
    THEN Processed(request, <<>>, <<>>)
    ELSE LET calls == <<request.value>> IN
         IF outcome \in {"http_error", "network_error"}
         THEN Processed(ApiRequestError(id, message, outcome), calls, <<>>)
         ELSE LET api_response == RESTBody(outcome)
                  formatted == RESTFormatResponse(id, c, outcome # "json_array",
                                                  api_response, message)
              IN IF formatted.ok
                 THEN Processed(formatted.value, calls, <<api_response>>)
                 ELSE Processed(ProcessingError(id, message,
                                                formatted.exception_type,
                                                formatted.text),
                                calls, <<api_response>>)

\* A connector that sends a request for an intent it has no endpoint for.
RESTProcessRequest_SendAnyway(id, c, message, outcome) ==
    LET request == RESTFormatRequest(c, message) IN
    IF ~request.ok
    THEN Processed(ApiRequestError(id, message, "http_error"),
                   <<[method |-> "GET", url |-> c.base_url, headers |-> c.headers,
                      params |-> <<message.payload.parameters>>, json |-> <<>>]>>,
                   <<>>)
    ELSE LET calls == <<request.value>> IN
         IF outcome \in {"http_error", "network_error"}
         THEN Processed(ApiRequestError(id, message, outcome), calls, <<>>)
         ELSE LET api_response == RESTBody(outcome)
                  formatted == RESTFormatResponse(id, c, outcome # "json_array",
                                                  api_response, message)
              IN IF formatted.ok
                 THEN Processed(formatted.value, calls, <<api_response>>)
                 ELSE Processed(ProcessingError(id, message,
                                                formatted.exception_type,
                                                formatted.text),
                                calls, <<api_response>>)

\* A connector that sends the request a second time when the first attempt
\* fails.
RESTProcessRequest_Retry(id, c, message, outcome) ==
    LET request == RESTFormatRequest(c, message) IN
    IF ~request.ok
    THEN Processed(ProcessingError(id, message, request.exception_type, request.text),
                   <<>>, <<>>)
    ELSE LET calls == <<request.value>> IN
         IF outcome \in {"http_error", "network_error"}
         THEN Processed(ApiRequestError(id, message, outcome), calls \o calls, <<>>)
         ELSE LET api_response == RESTBody(outcome)
                  formatted == RESTFormatResponse(id, c, outcome # "json_array",
                                                  api_response, message)
              IN IF formatted.ok
                 THEN Processed(formatted.value, calls, <<api_response>>)
                 ELSE Processed(ProcessingError(id, message,
                                                formatted.exception_type,
                                                formatted.text),
                                calls, <<api_response>>)

\* RESTConnector.process_request
RESTProcessRequest(id, c, message, outcome) ==
    LET request == RESTFormatRequest(c, message) IN
    IF ~request.ok
    THEN Processed(ProcessingError(id, message, request.exception_type, request.text),
                   <<>>, <<>>)
    ELSE LET calls == <<request.value>> IN
         IF outcome \in {"http_error", "network_error"}
         THEN Processed(ApiRequestError(id, message, outcome), calls, <<>>)
         ELSE LET api_response == RESTBody(outcome)
                  formatted == RESTFormatResponse(id, c, outcome # "json_array",
                                                  api_response, message)
              IN IF formatted.ok
                 THEN Processed(formatted.value, calls, <<api_response>>)
                 ELSE Processed(ProcessingError(id, message,
                                                formatted.exception_type,
                                                formatted.text),
                                calls, <<api_response>>)

\* GraphQLConnector.format_response
GraphQLFormatResponse(id, c, api_response, original_message) ==
    create_response(id, original_message,
                    Some(IF "data" \in DOMAIN api_response
                         THEN api_response.data ELSE EmptyDict),
                    Some(ConnectorMetadata(c)))

\* connector.py:418: response.json() for the outcomes that have a JSON body.
GraphQLBody(outcome) ==
    CASE outcome = "json_array" -> JsonArray
      [] outcome = "graphql_errors" -> [errors |-> <<"e">>]
      [] outcome = "errors_and_data" -> [errors |-> <<"e">>, data |-> ResponseBody]
      [] OTHER -> [data |-> ResponseBody]

\* A connector that answers with the data whenever the result carries some,
\* errors or not.
GraphQLProcessRequest_DataWins(id, c, message, outcome, json_is_request_exception) ==
    LET request == GraphQLFormatRequest(c, message) IN
    IF ~request.ok
    THEN Processed(ProcessingError(id, message, request.exception_type, request.text),
                   <<>>, <<>>)
    ELSE LET calls == <<request.value>>
             api_response == GraphQLBody(outcome)
         IN CASE outcome \in {"http_error", "network_error"} ->
                     Processed(ApiRequestError(id, message, outcome), calls, <<>>)
              [] outcome = "not_json" ->
                     Processed(IF json_is_request_exception
                               THEN ApiRequestError(id, message, outcome)
                               ELSE ProcessingError(id, message, "JSONDecodeError",
                                                    "Expecting value"),
                               calls, <<>>)
              [] outcome = "json_array" ->
                     \* "'errors' in [..]" is False; list has no .get
                     Processed(ProcessingError(id, message, "AttributeError",
                                               "'list' object has no attribute 'get'"),
                               calls, <<api_response>>)
              [] outcome = "graphql_errors" ->
                     Processed(create_error(id, message, "GRAPHQL_ERROR",
                                            "GraphQL operation failed",
                                            Some([errors |-> api_response.errors])),
                               calls, <<>>)
              [] OTHER ->
                     Processed(GraphQLFormatResponse(id, c, api_response, message),
                               calls, <<api_response>>)

\* GraphQLConnector.process_request.  response.json() on a body that is not
\* JSON raises a JSONDecodeError, which is a RequestException in the requests
\* releases that define requests.exceptions.JSONDecodeError and a plain
\* ValueError in older ones: json_is_request_exception says which.
GraphQLProcessRequest(id, c, message, outcome, json_is_request_exception) ==
    LET request == GraphQLFormatRequest(c, message) IN
    IF ~request.ok
    THEN Processed(ProcessingError(id, message, request.exception_type, request.text),
                   <<>>, <<>>)
    ELSE LET calls == <<request.value>>
             api_response == GraphQLBody(outcome)
         IN CASE outcome \in {"http_error", "network_error"} ->
                     Processed(ApiRequestError(id, message, outcome), calls, <<>>)
              [] outcome = "not_json" ->
                     Processed(IF json_is_request_exception
                               THEN ApiRequestError(id, message, outcome)
                               ELSE ProcessingError(id, message, "JSONDecodeError",
                                                    "Expecting value"),
                               calls, <<>>)
              [] outcome = "json_array" ->
                     \* "'errors' in [..]" is False; list has no .get
                     Processed(ProcessingError(id, message, "AttributeError",
                                               "'list' object has no attribute 'get'"),
                               calls, <<api_response>>)
              [] outcome \in {"graphql_errors", "errors_and_data"} ->
                     Processed(create_error(id, message, "GRAPHQL_ERROR",
                                            "GraphQL operation failed",
                                            Some([errors |-> api_response.errors])),
                               calls, <<>>)
              [] OTHER ->
                     Processed(GraphQLFormatResponse(id, c, api_response, message),
                               calls, <<api_response>>)

\* Dispatch over the connector variant: connector.process_request(message).
process_request(id, c, message, outcome, json_is_request_exception) ==
    IF c.api_type = "rest"
    THEN RESTProcessRequest(id, c, message, outcome)
    ELSE GraphQLProcessRequest(id, c, message, outcome, json_is_request_exception)

\* The calls a connector made, as log events: each outbound call with what
\* the backend made of it, then each call of format_response.
ConnectorLog(o, r, outcome) ==
    [k \in 1..Len(r.calls) |->
        [ev |-> "transport", conn |-> o, request |-> r.calls[k], outcome |-> outcome]]
    \o [k \in 1..Len(r.formatted) |->
           [ev |-> "format_response", conn |-> o, api_response |-> r.formatted[k]]]

(***************************************************************************)
(* mcp/router.py                                                           *)
(*                                                                         *)
(* A handler is a value: [kind |-> "fn", id |-> i], one of NumHandlerFns   *)
(* plain functions, or [kind |-> "connector", conn |-> o], the closure     *)
(* APIRegistry._create_handler builds around connector object o.  A        *)
(* middleware is one of MiddlewareFns.  Calls are recorded in a log.       *)
(***************************************************************************)
HandlerFns == {[kind |-> "fn", id |-> i] : i \in 1..NumHandlerFns}

\* What plain handler i does with a message: odd ones answer it, even ones
\* return None, and handler 0 raises.
HandlerFnReturns(i) ==
    IF i = 0 THEN "raise" ELSE IF i % 2 = 1 THEN "response" ELSE "absent"
RaisingHandler == [kind |-> "fn", id |-> 0]

\* An exception on its way up the call stack, in place of a returned value.
IsRaise(r) == "exception_type" \in DOMAIN r

\* Middleware bodies: return the message, return None, or return a new
\* envelope (fresh message_id) with a source, destination and intent of its own.
MiddlewareFns ==
    {[kind |-> "pass"], [kind |-> "drop"],
     [kind |-> "redirect", source |-> "proxy", destination |-> ApiDest("b"),
      intent |-> "create"]}

\* What a call yields: the value returned, the next fresh id, the calls made
\* and the envelope the middleware pipeline handed on (Absent when dropped).
Result(ret, id, log, handled) ==
    [ret |-> ret, nid |-> id, log |-> log, handled |-> handled]

CallMiddleware(mw, message, id) ==
    CASE mw.kind = "pass" -> [ret |-> message, nid |-> id]
      [] mw.kind = "drop" -> [ret |-> Absent, nid |-> id]
      [] OTHER ->
           [ret |-> MCPMessage(id, message.message_type, mw.source,
                               mw.destination, message.correlation_id,
                               MCPPayload(mw.intent, message.payload.parameters,
                                          message.payload.data,
                                          message.payload.metadata)),
            nid |-> id + 1]

\* A middleware loop that skips a middleware returning None instead of stopping.
RECURSIVE ApplyMiddleware_Continue(_, _, _, _, _)
ApplyMiddleware_Continue(mws, i, message, id, log) ==
    IF i > Len(mws)
    THEN Result(message, id, log, message)
    ELSE LET result == CallMiddleware(mws[i], message, id)
             log2 == Append(log, [ev |-> "middleware", index |-> i,
                                  arg |-> message.message_id])
         IN IF IsAbsent(result.ret)
            THEN ApplyMiddleware_Continue(mws, i + 1, message, result.nid, log2)
            ELSE ApplyMiddleware_Continue(mws, i + 1, result.ret, result.nid, log2)

\* A middleware loop that runs the pipeline last to first.
RECURSIVE ApplyMiddleware_Reversed(_, _, _, _, _)
ApplyMiddleware_Reversed(mws, i, message, id, log) ==
    IF i > Len(mws)
    THEN Result(message, id, log, message)
    ELSE LET result == CallMiddleware(mws[Len(mws) + 1 - i], message, id)
             log2 == Append(log, [ev |-> "middleware", index |-> Len(mws) + 1 - i,
                                  arg |-> message.message_id])
         IN IF IsAbsent(result.ret)
            THEN Result(Absent, result.nid, log2, Absent)
            ELSE ApplyMiddleware_Reversed(mws, i + 1, result.ret, result.nid, log2)

\* router.py:61-65, the middleware loop from position i on.
RECURSIVE ApplyMiddleware(_, _, _, _, _)
ApplyMiddleware(mws, i, message, id, log) ==
    IF i > Len(mws)
    THEN Result(message, id, log, message)
    ELSE LET result == CallMiddleware(mws[i], message, id)
             log2 == Append(log, [ev |-> "middleware", index |-> i,
                                  arg |-> message.message_id])
         IN IF IsAbsent(result.ret)
            THEN Result(Absent, result.nid, log2, Absent)
            ELSE ApplyMiddleware(mws, i + 1, result.ret, result.nid, log2)

\* handler(message), for either kind of handler.
CallHandler(handler, heap, message, id, log, outcome, jre) ==
    IF handler.kind = "fn"
    THEN LET log2 == Append(log, [ev |-> "handler", handler |-> handler,
                                  arg |-> message.message_id])
         IN CASE HandlerFnReturns(handler.id) = "response" ->
                     Result(create_response(id, message,
                                            Some([handled_by |-> handler.id]),
                                            NoneArg),
                            id + 1, log2, message)
              [] HandlerFnReturns(handler.id) = "raise" ->
                     Result(Raised("RuntimeError", "handler failed"), id, log2,
                            message)
              [] OTHER -> Result(Absent, id, log2, message)
    ELSE LET r == process_request(id, heap[handler.conn], message, outcome, jre)
         IN Result(r.ret, id + 1,
                   Append(log, [ev |-> "handler", handler |-> handler,
                                arg |-> message.message_id])
                   \o ConnectorLog(handler.conn, r, outcome),
                   message)

\* router.py:71, negated: a handler is found for (destination, intent).
HandlerFound(rt, destination, intent) ==
    DictHas(rt, destination) /\ intent \in DOMAIN DictGet(rt, destination)

\* A lookup that prefers the wildcard entry of the destination.
LookupHandler_WildcardFirst(rt, destination, intent) ==
    IF "*" \in DOMAIN DictGet(rt, destination)
    THEN DictGet(rt, destination)["*"]
    ELSE DictGet(rt, destination)[intent]

\* router.py:84
LookupHandler(rt, destination, intent) == DictGet(rt, destination)[intent]

\* A router that reports no routing failure, whatever the message type.
RouteNotFound_Silent(rt, message, id) == Absent

\* A router that answers every unroutable message, whatever its type, with an
\* error envelope.
RouteNotFound_AlwaysError(rt, message, id) ==
    create_error(id, message, "ROUTE_NOT_FOUND", "No handler found",
                 Some([available_destinations |-> DictKeys(rt)]))

\* router.py:72-81, what route returns when no handler is found.
RouteNotFound(rt, message, id) ==
    IF message.message_type = "request"
    THEN create_error(id, message, "ROUTE_NOT_FOUND",
                      "No handler found for destination '" \o message.destination
                          \o "' and intent '" \o message.payload.intent \o "'",
                      Some([available_destinations |-> DictKeys(rt)]))
    ELSE Absent

\* A router that builds the routing error from the envelope it was passed.
route_ErrorFromArgument(rt, mws, heap, message, id, outcome, jre) ==
    LET m == ApplyMiddleware(mws, 1, message, id, <<>>) IN
    IF IsAbsent(m.ret)
    THEN m
    ELSE LET destination == m.ret.destination
             intent == m.ret.payload.intent
         IN IF ~HandlerFound(rt, destination, intent)
            THEN LET error == RouteNotFound(rt, message, m.nid)
                 IN Result(error, IF IsAbsent(error) THEN m.nid ELSE m.nid + 1,
                           m.log, m.ret)
            ELSE CallHandler(LookupHandler(rt, destination, intent), heap, m.ret,
                             m.nid, m.log, outcome, jre)

\* A router that catches what a handler raises and returns None.
route_CatchesHandler(rt, mws, heap, message, id, outcome, jre) ==
    LET m == ApplyMiddleware(mws, 1, message, id, <<>>) IN
    IF IsAbsent(m.ret)
    THEN m
    ELSE LET destination == m.ret.destination
             intent == m.ret.payload.intent
         IN IF ~HandlerFound(rt, destination, intent)
            THEN LET error == RouteNotFound(rt, m.ret, m.nid)
                 IN Result(error, IF IsAbsent(error) THEN m.nid ELSE m.nid + 1,
                           m.log, m.ret)
            ELSE LET r == CallHandler(LookupHandler(rt, destination, intent), heap,
                                      m.ret, m.nid, m.log, outcome, jre)
                 IN IF IsRaise(r.ret) THEN Result(Absent, r.nid, r.log, r.handled)
                    ELSE r

\* MCPRouter.route; it has no try block, so what a handler raises is what
\* route raises.
route(rt, mws, heap, message, id, outcome, jre) ==
    LET m == ApplyMiddleware(mws, 1, message, id, <<>>) IN
    IF IsAbsent(m.ret)
    THEN m
    ELSE LET destination == m.ret.destination
             intent == m.ret.payload.intent
         IN IF ~HandlerFound(rt, destination, intent)
            THEN LET error == RouteNotFound(rt, m.ret, m.nid)
                 IN Result(error, IF IsAbsent(error) THEN m.nid ELSE m.nid + 1,
                           m.log, m.ret)
            ELSE CallHandler(LookupHandler(rt, destination, intent), heap, m.ret,
                             m.nid, m.log, outcome, jre)

\* Number of (destination, intent) entries of a route table.
RECURSIVE RouteCount(_)
RouteCount(rt) ==
    IF Len(rt) = 0 THEN 0
    ELSE Cardinality(DOMAIN rt[1].val) + RouteCount(Tail(rt))

\* A registration that keeps the handler a pair already has.
RegisterHandler_KeepFirst(rt, destination, intent, handler) ==
    IF DictHas(rt, destination) /\ intent \in DOMAIN DictGet(rt, destination)
    THEN rt
    ELSE LET rt2 == IF ~DictHas(rt, destination)
                    THEN DictSet(rt, destination, <<>>) ELSE rt
         IN DictSet(rt2, destination,
                    DictPut(DictGet(rt2, destination), intent, handler))

\* MCPRouter.register_handler: the new value of _routes.
RegisterHandler(rt, destination, intent, handler) ==
    LET rt2 == IF ~DictHas(rt, destination)
               THEN DictSet(rt, destination, <<>>) ELSE rt
    IN DictSet(rt2, destination, DictPut(DictGet(rt2, destination), intent, handler))

\* MCPRouter.register_middleware: the new value of _middleware.
RegisterMiddleware(mws, mw) == Append(mws, mw)

(***************************************************************************)
(* api/client.py                                                           *)
(***************************************************************************)
\* A facade that hands on whatever route returned, None included.
call_api_NoCheck(rt, mws, heap, source_id, api_name, intent, parameters, id, outcome, jre) ==
    LET request == create_request(id, source_id, ApiDest(api_name), intent,
                                  Some(parameters), Some(EmptyDict),
                                  Some(EmptyDict), NoId)
        response == route(rt, mws, heap, request, id + 1, outcome, jre)
    IN [request |-> request, routed |-> response.ret, ret |-> response.ret,
        log |-> response.log, handled |-> response.handled]

\* APIClient.call_api; request is the envelope it builds, routed what
\* router.route returned for it.  It has no try block: what route raises
\* leaves call_api before the test for None.
call_api(rt, mws, heap, source_id, api_name, intent, parameters, id, outcome, jre) ==
    LET request == create_request(id, source_id, ApiDest(api_name), intent,
                                  Some(parameters), Some(EmptyDict),
                                  Some(EmptyDict), NoId)
        response == route(rt, mws, heap, request, id + 1, outcome, jre)
    IN IF ~IsRaise(response.ret) /\ IsAbsent(response.ret)
       THEN [request |-> request, routed |-> Absent,
             ret |-> create_error(response.nid, request, "NO_RESPONSE",
                                  "No response received from API '" \o api_name
                                      \o "'",
                                  Some(EmptyDict)),
             log |-> response.log, handled |-> response.handled]
       ELSE [request |-> request, routed |-> response.ret, ret |-> response.ret,
             log |-> response.log, handled |-> response.handled]

(***************************************************************************)
(* api/registry.py: the reads of _connectors.  A connector object is named *)
(* by its object id; get_connector returns an Optional (a sequence of      *)
(* length 0 or 1).                                                         *)
(***************************************************************************)
\* APIRegistry.get_connector: self._connectors.get(name)
get_connector(cs, name) == IF DictHas(cs, name) THEN <<DictGet(cs, name)>> ELSE <<>>

\* APIRegistry.list_connectors: list(self._connectors.keys())
list_connectors(cs) == DictKeys(cs)

(***************************************************************************)
(* The state machine.  last records the most recent operation: for route   *)
(* and call_api, message is the envelope routed (for call_api the request  *)
(* it built), handled the envelope the middleware pipeline handed on,      *)
(* routed what route returned, ret what the operation returned and log the *)
(* middleware, handler and transport calls made, in order.                 *)
(***************************************************************************)
Op(op, message, handled, routed, ret, log) ==
    [op |-> op, message |-> message, handled |-> handled, routed |-> routed,
     ret |-> ret, log |-> log]

\* A registration or construction: it returns nothing and holds no envelope.
Setup == Op("setup", Absent, Absent, Absent, Absent, <<>>)

IdOf(m) == IF "message_id" \in DOMAIN m THEN m.message_id ELSE 0
Max2(a, b) == IF a >= b THEN a ELSE b

\* uuid4(): an id no envelope still held carries.
FreshId == 1 + Max2(IdOf(last.message), Max2(IdOf(last.handled), IdOf(last.ret)))

\* What the environment decides for one outbound call: the transport outcome
\* and which exception class response.json() raises.
TransportCases ==
    {<<outcome, TRUE>> : outcome \in TransportOutcomes} \cup {<<"not_json", FALSE>>}

\* The cases that can differ for a call with this log: all of them when it
\* reached a transport (whether it did does not depend on the case), one when
\* it did not.
CasesFor(log) ==
    IF \E k \in 1..Len(log) : log[k].ev = "transport"
    THEN TransportCases ELSE {<<"json_object", TRUE>>}

Init ==
    /\ routes = <<>>
    /\ middleware = <<>>
    /\ connectors = <<>>
    /\ objs = <<>>
    /\ last = Setup
    /\ pending = {}

\* router.register_handler(destination, intent, handler) with a plain function;
\* the log notes the call and the handler the pair had before it, if any.
register_handler(destination, intent, handler) ==
    /\ RouteCount(RegisterHandler(routes, destination, intent, handler)) <= MaxRoutes
    /\ routes' = RegisterHandler(routes, destination, intent, handler)
    /\ last' = Op("register_handler", Absent, Absent, Absent, Absent,
                  <<[ev |-> "register", destination |-> destination,
                     intent |-> intent, handler |-> handler,
                     replaced |-> IF HandlerFound(routes, destination, intent)
                                  THEN <<LookupHandler(routes, destination, intent)>>
                                  ELSE <<>>]>>)
    /\ UNCHANGED <<middleware, connectors, objs, pending>>

\* router.register_middleware(mw)
register_middleware(mw) ==
    /\ Len(middleware) < MaxMiddleware
    /\ middleware' = RegisterMiddleware(middleware, mw)
    /\ last' = Setup
    /\ UNCHANGED <<routes, connectors, objs, pending>>

\* RESTConnector(name, base_url, auth_type) or
\* GraphQLConnector(name, base_url, auth_type)
CreateConnector(name, api_type, auth_type) ==
    /\ Len(objs) < MaxObjs
    /\ objs' = Append(objs, NewConnector(name, api_type, auth_type))
    /\ last' = Setup
    /\ UNCHANGED <<routes, middleware, connectors, pending>>

\* connector.set_auth(**kwargs); the log notes the call and its arguments.
set_auth(o, kwargs) ==
    /\ objs' = [objs EXCEPT ![o] = SetAuth(@, kwargs)]
    /\ last' = Op("set_auth", Absent, Absent, Absent, Absent,
                  <<[ev |-> "set_auth", conn |-> o, kwargs |-> kwargs]>>)
    /\ UNCHANGED <<routes, middleware, connectors, pending>>

\* RESTConnector.register_endpoint(intent, endpoint, method, params_mapping);
\* the log notes the call and the method as given.
register_endpoint(o, intent, endpoint, method, params_mapping) ==
    /\ objs[o].api_type = "rest"
    /\ objs' = [objs EXCEPT ![o] = RegisterEndpoint(@, intent, endpoint, method,
                                                    params_mapping)]
    /\ last' = Op("register_endpoint", Absent, Absent, Absent, Absent,
                  <<[ev |-> "register_endpoint", conn |-> o, intent |-> intent,
                     method |-> method]>>)
    /\ UNCHANGED <<routes, middleware, connectors, pending>>

\* GraphQLConnector.register_query(intent, query, params_mapping)
register_query(o, intent, query, params_mapping) ==
    /\ objs[o].api_type = "graphql"
    /\ objs' = [objs EXCEPT ![o] = RegisterQuery(@, intent, query, params_mapping)]
    /\ last' = Setup
    /\ UNCHANGED <<routes, middleware, connectors, pending>>

\* GraphQLConnector.register_mutation(intent, mutation, params_mapping)
register_mutation(o, intent, mutation, params_mapping) ==
    /\ objs[o].api_type = "graphql"
    /\ objs' = [objs EXCEPT ![o] = RegisterMutation(@, intent, mutation,
                                                    params_mapping)]
    /\ last' = Setup
    /\ UNCHANGED <<routes, middleware, connectors, pending>>

\* A registry whose router keeps the handler a name already has.
register_connector_KeepHandler(o) ==
    /\ connectors' = DictSet(connectors, objs[o].name, o)
    /\ routes' = RegisterHandler_KeepFirst(routes, ApiDest(objs[o].name), "*",
                                           [kind |-> "connector", conn |-> o])
    /\ last' = Op("register_connector", Absent, Absent, Absent, Absent,
                  <<[ev |-> "register_connector", conn |-> o,
                     replaced |-> get_connector(connectors, objs[o].name)]>>)
    /\ UNCHANGED <<middleware, objs, pending>>

\* A registry that keeps the connector a name already has.
register_connector_KeepFirst(o) ==
    /\ connectors' = IF DictHas(connectors, objs[o].name)
                     THEN connectors
                     ELSE DictSet(connectors, objs[o].name, o)
    /\ routes' = RegisterHandler(routes, ApiDest(objs[o].name), "*",
                                 [kind |-> "connector", conn |-> o])
    /\ last' = Op("register_connector", Absent, Absent, Absent, Absent,
                  <<[ev |-> "register_connector", conn |-> o,
                     replaced |-> get_connector(connectors, objs[o].name)]>>)
    /\ UNCHANGED <<middleware, objs, pending>>

\* APIRegistry.register_connector(connector); the log notes the call and the
\* connector the name had before it, if any.
register_connector(o) ==
    /\ connectors' = DictSet(connectors, objs[o].name, o)
    /\ routes' = RegisterHandler(routes, ApiDest(objs[o].name), "*",
                                 [kind |-> "connector", conn |-> o])
    /\ last' = Op("register_connector", Absent, Absent, Absent, Absent,
                  <<[ev |-> "register_connector", conn |-> o,
                     replaced |-> get_connector(connectors, objs[o].name)]>>)
    /\ UNCHANGED <<middleware, objs, pending>>

\* registry.py:34-37, the first half of a register_connector call that runs
\* next to other calls: the write to self._connectors.
RegisterConnectorWrite(o) ==
    /\ o \notin pending
    /\ connectors' = DictSet(connectors, objs[o].name, o)
    /\ pending' = pending \cup {o}
    /\ last' = Setup
    /\ UNCHANGED <<routes, middleware, objs>>

\* registry.py:40-44, the second half: router.register_handler for the
\* connector's handler.
RegisterConnectorHandler(o) ==
    /\ o \in pending
    /\ routes' = RegisterHandler(routes, ApiDest(objs[o].name), "*",
                                 [kind |-> "connector", conn |-> o])
    /\ pending' = pending \ {o}
    /\ last' = Setup
    /\ UNCHANGED <<middleware, connectors, objs>>

\* registry.get_connector(name); the log notes the call and its result.
GetConnector(name) ==
    /\ last' = Op("get_connector", Absent, Absent, Absent, Absent,
                  <<[ev |-> "get_connector", name |-> name,
                     result |-> get_connector(connectors, name)]>>)
    /\ UNCHANGED <<routes, middleware, connectors, objs, pending>>

\* connector.process_request(message), called on a connector object directly
\* with a request addressed to it
ProcessRequest(o, source, intent, parameters) ==
    /\ FreshId <= MaxIds
    /\ LET message == create_request(FreshId, source, ApiDest(objs[o].name),
                                     intent, Some(parameters), NoneArg, NoneArg,
                                     NoId)
           Called == <<[ev |-> "process_request", conn |-> o,
                        arg |-> message.message_id]>>
       IN \E case \in TransportCases :
          \E r \in {process_request(FreshId + 1, objs[o], message, case[1], case[2])} :
              /\ case \in CasesFor(ConnectorLog(o, r, case[1]))
              /\ last' = Op("process_request", message, message, r.ret, r.ret,
                            Called \o ConnectorLog(o, r, case[1]))
    /\ UNCHANGED <<routes, middleware, connectors, objs, pending>>

\* router.route(message), for an envelope of any type built by the caller
Route(type, source, destination, intent, parameters) ==
    /\ FreshId <= MaxIds
    /\ LET message == MCPMessage(FreshId, type, source, destination, NoId,
                                 MCPPayload(intent, parameters, EmptyDict,
                                            EmptyDict))
       IN \E case \in TransportCases :
          \E r \in {route(routes, middleware, objs, message, FreshId + 1,
                          case[1], case[2])} :
              /\ case \in CasesFor(r.log)
              /\ last' = Op("route", message, r.handled, r.ret, r.ret, r.log)
    /\ UNCHANGED <<routes, middleware, connectors, objs, pending>>

\* APIClient(source_id).call_api(api_name, intent, parameters)
CallApi(source_id, api_name, intent, parameters) ==
    /\ FreshId <= MaxIds
    /\ \E case \in TransportCases :
       \E r \in {call_api(routes, middleware, objs, source_id, api_name, intent,
                          parameters, FreshId, case[1], case[2])} :
           /\ case \in CasesFor(r.log)
           /\ last' = Op("call_api", r.request, r.handled, r.routed, r.ret, r.log)
    /\ UNCHANGED <<routes, middleware, connectors, objs, pending>>

\* connector.format_request(message), called on a connector object directly
\* with a request addressed to it; the log notes the call and what it returned
\* or raised.
FormatRequest(o, source, intent, parameters) ==
    /\ FreshId <= MaxIds
    /\ LET message == create_request(FreshId, source, ApiDest(objs[o].name),
                                     intent, Some(parameters), NoneArg, NoneArg,
                                     NoId)
       IN last' = Op("format_request", message, message, Absent, Absent,
                     <<[ev |-> "format_request", conn |-> o,
                        result |-> format_request(objs[o], message)]>>)
    /\ UNCHANGED <<routes, middleware, connectors, objs, pending>>

\* MCPMessage.create_response(request, data, metadata), called directly
CreateResponse(source, destination, intent, correlation_id, data, metadata) ==
    /\ FreshId <= MaxIds
    /\ LET request == create_request(FreshId, source, destination, intent,
                                     NoneArg, NoneArg, NoneArg, correlation_id)
           response == create_response(FreshId + 1, request, data, metadata)
       IN last' = Op("create_response", request, request, response, response,
                     <<[ev |-> "args", data |-> data, metadata |-> metadata]>>)
    /\ UNCHANGED <<routes, middleware, connectors, objs, pending>>

\* MCPMessage.create_error(request, error_code, error_message, details),
\* called directly
CreateError(source, destination, intent, correlation_id, error_code, details) ==
    /\ FreshId <= MaxIds
    /\ LET request == create_request(FreshId, source, destination, intent,
                                     NoneArg, NoneArg, NoneArg, correlation_id)
           error == create_error(FreshId + 1, request, error_code, "failed", details)
       IN last' = Op("create_error", request, request, error, error,
                     <<[ev |-> "args", details |-> details]>>)
    /\ UNCHANGED <<routes, middleware, connectors, objs, pending>>

\* The router and the client facade, with plain handlers.
Next ==
    \/ \E d \in Destinations, i \in Intents, h \in HandlerFns :
           register_handler(d, i, h)
    \/ \E mw \in MiddlewareFns : register_middleware(mw)
    \/ \E t \in MessageType, s \in Sources, d \in Destinations, i \in Intents,
          p \in ParameterSets :
           Route(t, s, d, i, p)
    \/ \E s \in Sources, n \in Names, i \in Intents, p \in ParameterSets :
           CallApi(s, n, i, p)

Spec == Init /\ [][Next]_vars

\* The registry, the connectors and the client facade.
EndpointIntents == {"query"}

NextApi ==
    \/ \E n \in Names, t \in APIType : CreateConnector(n, t, "none")
    \/ \E o \in DOMAIN objs, i \in EndpointIntents :
              register_endpoint(o, i, EndpointInfo.endpoint, EndpointInfo.method,
                                EndpointInfo.params_mapping)
    \/ \E o \in DOMAIN objs, i \in EndpointIntents :
              register_query(o, i, QueryInfo.query, QueryInfo.params_mapping)
    \/ \E o \in DOMAIN objs, i \in EndpointIntents :
              register_mutation(o, i, MutationInfo.mutation,
                                MutationInfo.params_mapping)
    \/ \E o \in DOMAIN objs : register_connector(o)
    \/ \E o \in DOMAIN objs, s \in Sources, i \in Intents, p \in ParameterSets :
           ProcessRequest(o, s, i, p)
    \/ \E s \in Sources, n \in Names, i \in Intents, p \in ParameterSets :
           CallApi(s, n, i, p)

SpecApi == Init /\ [][NextApi]_vars

\* Everything but plain handlers, for setups of at most MaxSetup parts:
\* connector objects, their registered intents, route entries and middleware.
RECURSIVE ObjSize(_)
ObjSize(os) ==
    IF Len(os) = 0 THEN 0
    ELSE 1 + Cardinality(DOMAIN os[1].endpoints) + Cardinality(DOMAIN os[1].queries)
           + Cardinality(DOMAIN os[1].mutations) + ObjSize(Tail(os))

SetupSize == ObjSize(objs) + RouteCount(routes) + Len(middleware)

OptionalDicts == {NoneArg, Some(EmptyDict), Some([k |-> "v"])}
CorrelationIds == {NoId, 9}
ErrorCodes == {"CUSTOM_ERROR"}

\* The intents a gateway setup registers with its connectors; "*" is the one
\* call_api can reach a connector with.
GatewayIntents == {"query", "*"}

NextGateway ==
    \/ /\ SetupSize < MaxSetup
       /\ \/ \E n \in Names, t \in APIType : CreateConnector(n, t, "none")
          \/ \E o \in DOMAIN objs, i \in GatewayIntents :
              register_endpoint(o, i, EndpointInfo.endpoint, EndpointInfo.method,
                                EndpointInfo.params_mapping)
          \/ \E o \in DOMAIN objs, i \in GatewayIntents :
              register_query(o, i, QueryInfo.query, QueryInfo.params_mapping)
          \/ \E o \in DOMAIN objs, i \in GatewayIntents :
              register_mutation(o, i, MutationInfo.mutation,
                                MutationInfo.params_mapping)
          \/ \E o \in DOMAIN objs : register_connector(o)
          \/ \E mw \in MiddlewareFns : register_middleware(mw)
    \/ \E o \in DOMAIN objs, s \in Sources, i \in Intents, p \in ParameterSets :
           ProcessRequest(o, s, i, p)
    \/ \E s \in Sources, n \in Names, i \in Intents, p \in ParameterSets :
           CallApi(s, n, i, p)
    \/ \E s \in Sources, d \in Destinations, i \in Intents, c \in CorrelationIds,
          data \in OptionalDicts, metadata \in OptionalDicts :
           CreateResponse(s, d, i, c, data, metadata)
    \/ \E s \in Sources, d \in Destinations, i \in Intents, c \in CorrelationIds,
          code \in ErrorCodes, details \in OptionalDicts :
           CreateError(s, d, i, c, code, details)

SpecGateway == Init /\ [][NextGateway]_vars

\* The router and the client facade with a handler that answers and one that
\* raises.
RaiseHandlers == {[kind |-> "fn", id |-> 1], RaisingHandler}
RaiseMessageTypes == {"request", "event"}

NextRaise ==
    \/ \E d \in Destinations, i \in Intents, h \in RaiseHandlers :
           register_handler(d, i, h)
    \/ \E mw \in MiddlewareFns : register_middleware(mw)
    \/ \E t \in RaiseMessageTypes, s \in Sources, d \in Destinations,
          i \in Intents, p \in ParameterSets :
           Route(t, s, d, i, p)
    \/ \E s \in Sources, n \in Names, i \in Intents, p \in ParameterSets :
           CallApi(s, n, i, p)

SpecRaise == Init /\ [][NextRaise]_vars

\* register_connector calls running next to each other and next to lookups:
\* the code holds no lock, so the calls interleave at their two writes and a
\* lookup runs in any state.
NextConcurrent ==
    \/ \E n \in Names, t \in APIType : CreateConnector(n, t, "none")
    \/ \E o \in DOMAIN objs : RegisterConnectorWrite(o)
    \/ \E o \in DOMAIN objs : RegisterConnectorHandler(o)
    \/ \E n \in Names : GetConnector(n)
    \/ \E s \in Sources, n \in Names, i \in Intents, p \in ParameterSets :
           CallApi(s, n, i, p)

SpecConcurrent == Init /\ [][NextConcurrent]_vars

\* One connector object, configured in every way, and its format_request.
EndpointTemplates == {<<Lit("items"), Lit("/"), Ph("id")>>, <<Lit("search")>>}
Methods == {"GET", "get", "Delete", "POST", "put"}
ParamsMappings == {NoneArg, Some(<<[key |-> "item_id", val |-> "id"]>>)}
FormatAuthTypes == {"none", "api_key", "bearer"}
AuthKwargs ==
    {[key_location |-> "query"],
     [key_name |-> "k", key_value |-> "s", key_location |-> "query"],
     [key_name |-> "k", key_value |-> "s"],
     [token |-> "t"]}
FormatParameterSets ==
    {<<>>,
     <<[key |-> "item_id", val |-> StrVal("42")], [key |-> "verbose", val |-> StrVal("true")]>>,
     <<[key |-> "id", val |-> <<Ph("verbose")>>], [key |-> "verbose", val |-> StrVal("true")]>>,
     <<[key |-> "item_id", val |-> StrVal("42")], [key |-> "id", val |-> StrVal("7")]>>,
     <<[key |-> "api_key", val |-> StrVal("mine")]>>}

NextFormat ==
    \/ /\ objs = <<>>
       /\ \E n \in Names, t \in APIType, a \in FormatAuthTypes : CreateConnector(n, t, a)
    \/ \E o \in DOMAIN objs, kwargs \in AuthKwargs : set_auth(o, kwargs)
    \/ \E o \in DOMAIN objs, i \in EndpointIntents, e \in EndpointTemplates,
          m \in Methods, pm \in ParamsMappings :
           register_endpoint(o, i, e, m, pm)
    \/ \E o \in DOMAIN objs, i \in EndpointIntents, pm \in ParamsMappings :
           register_query(o, i, QueryInfo.query, pm)
    \/ \E o \in DOMAIN objs, i \in EndpointIntents, pm \in ParamsMappings :
           register_mutation(o, i, MutationInfo.mutation, pm)
    \/ \E o \in DOMAIN objs, s \in Sources, i \in Intents, p \in FormatParameterSets :
           FormatRequest(o, s, i, p)

SpecFormat == Init /\ [][NextFormat]_vars

(***************************************************************************)
(* Properties.  In a state reached by route or call_api, last.handled is   *)
(* the envelope as it left the middleware pipeline: the one route looks up *)
(* and hands to the handler or to create_error.                            *)
(***************************************************************************)
IsCall == last.op \in {"route", "call_api"}
Dispatched == IsCall /\ ~IsAbsent(last.handled)
HandledDest == last.handled.destination
HandledIntent == last.handled.payload.intent

\* The route table read directly: whether (d, i) has an entry, and the handler
\* it holds.
HasEntry(d, i) ==
    \E k \in 1..Len(routes) : routes[k].key = d /\ i \in DOMAIN routes[k].val
Entry(d, i) == routes[CHOOSE k \in 1..Len(routes) : routes[k].key = d].val[i]

IsErrorCode(m, code) ==
    /\ ~IsAbsent(m)
    /\ m.message_type = "error"
    /\ m.payload.data.error_code = code

HandlerEvents(log) == SelectSeq(log, LAMBDA e : e.ev = "handler")
HandlerEvent(handler, message) ==
    [ev |-> "handler", handler |-> handler, arg |-> message.message_id]

\* C1: after register_connector(C), with no middleware and no exact-intent
\* handler, call_api(C.name, intent, ...) dispatches the request, for any
\* intent, through ("api.<C.name>", "*") to C.process_request and never returns
\* ROUTE_NOT_FOUND.
C1_RegisteredConnectorReached ==
    \A n \in Names :
        (/\ last.op = "call_api"
         /\ Len(middleware) = 0
         /\ last.message.destination = ApiDest(n)
         /\ DictHas(connectors, n))
        => /\ HandlerEvents(last.log) =
                  <<HandlerEvent([kind |-> "connector",
                                  conn |-> DictGet(connectors, n)],
                                 last.message)>>
           /\ ~IsErrorCode(last.ret, "ROUTE_NOT_FOUND")

\* C2: when (D, "*") has a handler and (D, I) has none, route of an envelope
\* that reaches dispatch addressed to D with intent I invokes the wildcard
\* handler of D and returns its result, not ROUTE_NOT_FOUND.
C2_WildcardFallback ==
    (/\ last.op = "route"
     /\ ~IsAbsent(last.handled)
     /\ HasEntry(HandledDest, "*")
     /\ ~HasEntry(HandledDest, HandledIntent))
    => /\ HandlerEvents(last.log) =
              <<HandlerEvent(Entry(HandledDest, "*"), last.handled)>>
       /\ ~IsErrorCode(last.ret, "ROUTE_NOT_FOUND")

\* C3: when both (D, I) and (D, "*") have handlers, route of an envelope that
\* reaches dispatch addressed to D with intent I invokes the handler of (D, I)
\* and no other; a different wildcard handler is not invoked.
C3_ExactBeatsWildcard ==
    (/\ Dispatched
     /\ HasEntry(HandledDest, HandledIntent)
     /\ HasEntry(HandledDest, "*"))
    => /\ HandlerEvents(last.log) =
              <<HandlerEvent(Entry(HandledDest, HandledIntent),
                             last.handled)>>
       /\ \A k \in 1..Len(last.log) :
              (/\ last.log[k].ev = "handler"
               /\ last.log[k].handler = Entry(HandledDest, "*"))
              => Entry(HandledDest, "*")
                     = Entry(HandledDest, HandledIntent)

\* C3 witness: a route to (D, I), I not the wildcard, with different handlers
\* under (D, I) and (D, "*"), ran a handler.
C3_Witness ==
    /\ last.op = "route"
    /\ ~IsAbsent(last.handled)
    /\ HandledIntent # "*"
    /\ HasEntry(HandledDest, HandledIntent)
    /\ HasEntry(HandledDest, "*")
    /\ Entry(HandledDest, "*")
           # Entry(HandledDest, HandledIntent)
    /\ Len(HandlerEvents(last.log)) = 1

Origin ==
    IF last.op = "call_api" /\ IsAbsent(last.routed)
    THEN last.message ELSE last.handled

Produced ==
    /\ last.op \in {"create_response", "create_error", "process_request",
                    "call_api"}
    /\ ~IsAbsent(last.ret)

C6_IntentPreserved ==
    Produced => last.ret.payload.intent = Origin.payload.intent

\* C6 witness: a connector answered a request with a response envelope.
C6_Witness ==
    /\ last.op = "process_request"
    /\ last.ret.message_type = "response"
    /\ \E k \in 1..Len(last.log) : last.log[k].ev = "transport"

\* C7: every error envelope produced by create_error directly, by route
\* (ROUTE_NOT_FOUND), by call_api (NO_RESPONSE) or by a connector has the keys
\* error_code, error_message and details in payload.data; details is the empty
\* mapping when none, or an empty one, was supplied.
C7_ErrorShape ==
    (Produced /\ last.ret.message_type = "error")
    => /\ {"error_code", "error_message", "details"}
              \subseteq DOMAIN last.ret.payload.data
       /\ (last.op = "create_error" /\ DOMAIN OrEmpty(last.log[1].details) = {})
              => DOMAIN last.ret.payload.data.details = {}
       /\ IsErrorCode(last.ret, "NO_RESPONSE")
              => DOMAIN last.ret.payload.data.details = {}

\* C7 witness: create_error was called with no details.
C7_Witness ==
    /\ last.op = "create_error"
    /\ Len(last.log[1].details) = 0
    /\ last.ret.message_type = "error"

\* C8: call_api never returns absent: when route yields absent for the request
\* it built it returns a NO_RESPONSE error correlated to that request,
\* otherwise it returns route's envelope unchanged.
C8_AlwaysAResponse ==
    last.op = "call_api"
    => LET r == route(routes, middleware, objs, last.message,
                      last.message.message_id + 1, "json_object", TRUE).ret
       IN /\ ~IsAbsent(last.ret)
          /\ IF IsAbsent(r)
             THEN /\ IsErrorCode(last.ret, "NO_RESPONSE")
                  /\ last.ret.correlation_id = last.message.message_id
                  /\ last.ret.destination = last.message.source
             ELSE last.ret = r

\* C8 witness: the handler call_api's request reached returned None, and
\* call_api answered NO_RESPONSE.
C8_Witness ==
    /\ last.op = "call_api"
    /\ Len(HandlerEvents(last.log)) = 1
    /\ IsAbsent(last.routed)
    /\ IsErrorCode(last.ret, "NO_RESPONSE")

\* The position of the first middleware that returns None.
FirstDrop ==
    CHOOSE j \in 1..Len(middleware) :
        /\ middleware[j].kind = "drop"
        /\ \A k \in 1..(j - 1) : middleware[k].kind # "drop"

\* C9: when a middleware returns absent, route returns absent, and neither a
\* later middleware nor a handler is invoked, whatever the message type and
\* whether or not a handler exists.
C9_DropShortCircuits ==
    (IsCall /\ \E j \in 1..Len(middleware) : middleware[j].kind = "drop")
    => /\ IsAbsent(last.routed)
       /\ last.op = "route" => IsAbsent(last.ret)
       /\ Len(last.log) = FirstDrop
       /\ \A k \in 1..Len(last.log) :
              last.log[k].ev = "middleware" /\ last.log[k].index = k

\* C9 witness: a request with a registered handler was dropped by the first
\* of two middleware.
C9_Witness ==
    /\ last.op = "route"
    /\ last.message.message_type = "request"
    /\ Len(middleware) = 2
    /\ middleware[1].kind = "drop"
    /\ HasEntry(last.message.destination, last.message.payload.intent)
    /\ IsAbsent(last.ret)

\* The register_handler call a state was reached by.
Registered == last.log[1]

\* C10: a route that follows register_handler(D, I, h) and resolves to (D, I)
\* invokes h and no other handler; register_handler leaves every other pair's
\* entry as it was; and a dispatched message runs exactly one handler.
C10_LastRegistrationWins ==
    [][/\ (/\ last.op = "register_handler"
           /\ last'.op \in {"route", "call_api"}
           /\ ~IsAbsent(last'.handled)
           /\ last'.handled.destination = Registered.destination
           /\ last'.handled.payload.intent = Registered.intent)
          => HandlerEvents(last'.log)
                 = <<HandlerEvent(Registered.handler, last'.handled)>>
       /\ last'.op = "register_handler"
          => \A d \in Destinations, i \in Intents :
                 <<d, i>> # <<Registered'.destination, Registered'.intent>>
                 => /\ HasEntry(d, i)' = HasEntry(d, i)
                    /\ HasEntry(d, i) => Entry(d, i)' = Entry(d, i)
       /\ (/\ last'.op \in {"route", "call_api"}
           /\ ~IsAbsent(last'.handled)
           /\ HasEntry(last'.handled.destination, last'.handled.payload.intent))
          => Len(HandlerEvents(last'.log)) = 1
      ]_vars

\* C10 witness: register_handler replaced the handler of a pair by another one.
C10_Witness ==
    /\ last.op = "register_handler"
    /\ Len(Registered.replaced) = 1
    /\ Registered.replaced[1] # Registered.handler
    /\ Entry(Registered.destination, Registered.intent) = Registered.handler

\* C11: route of an envelope that is not a request (response, error, event,
\* notification) and reaches dispatch with no handler under its
\* (destination, intent) returns absent: no error envelope is built and no
\* handler runs.
C11_NonRequestUnroutedIsAbsent ==
    (/\ last.op = "route"
     /\ ~IsAbsent(last.handled)
     /\ last.handled.message_type # "request"
     /\ ~HasEntry(HandledDest, HandledIntent))
    => /\ IsAbsent(last.ret)
       /\ HandlerEvents(last.log) = <<>>

\* C11 witness: an event for a pair without a handler, sent through a router
\* that has a handler for another intent of the same destination, came back as
\* absent.
C11_Witness ==
    /\ last.op = "route"
    /\ ~IsAbsent(last.handled)
    /\ last.handled.message_type = "event"
    /\ DictHas(routes, HandledDest)
    /\ ~HasEntry(HandledDest, HandledIntent)
    /\ IsAbsent(last.ret)

\* How many times a name occurs in a list of names.
Occurrences(names, n) == Cardinality({k \in 1..Len(names) : names[k] = n})

\* The register_connector call a state was reached by.
RegisteredConnector == last.log[1]

\* C12: after register_connector(C), whether or not C.name was in use,
\* get_connector(C.name) returns C and list_connectors holds C.name exactly
\* once; what get_connector returns for every other name, and how often
\* list_connectors holds it, is as before.
C12_ConnectorOverwrite ==
    [][last'.op = "register_connector"
       => LET o == RegisteredConnector'.conn
              n == objs[o].name
          IN /\ get_connector(connectors', n) = <<o>>
             /\ Occurrences(list_connectors(connectors'), n) = 1
             /\ \A m \in Names \ {n} :
                    /\ get_connector(connectors', m) = get_connector(connectors, m)
                    /\ Occurrences(list_connectors(connectors'), m)
                           = Occurrences(list_connectors(connectors), m)
      ]_vars

\* C12 witness: a connector was registered under a name that another
\* connector object held, and the registry now answers with the new one.
C12_Witness ==
    /\ last.op = "register_connector"
    /\ Len(RegisteredConnector.replaced) = 1
    /\ RegisteredConnector.replaced[1] # RegisteredConnector.conn
    /\ get_connector(connectors, objs[RegisteredConnector.conn].name)
           = <<RegisteredConnector.conn>>
    /\ Len(list_connectors(connectors)) = 1

(***************************************************************************)
(* Properties of the connectors.  A connector's process_request is invoked *)
(* directly (op "process_request") or by the handler the registry made for *)
(* it; last.routed is what it returned, last.handled the message it got.   *)
(***************************************************************************)
\* The connector objects whose process_request the last operation invoked.
Invoked ==
    {last.log[k].conn : k \in {j \in 1..Len(last.log) :
                                  last.log[j].ev = "process_request"}}
    \cup {last.log[k].handler.conn :
             k \in {j \in 1..Len(last.log) :
                       /\ last.log[j].ev = "handler"
                       /\ last.log[j].handler.kind = "connector"}}

Transports == SelectSeq(last.log, LAMBDA e : e.ev = "transport")
FormatResponses == SelectSeq(last.log, LAMBDA e : e.ev = "format_response")

\* Whether connector c has a mapping for the intent.
HasMapping(c, intent) ==
    IF c.api_type = "rest" THEN intent \in DOMAIN c.endpoints
    ELSE intent \in DOMAIN c.queries \/ intent \in DOMAIN c.mutations

\* C13: process_request of a REST or GraphQL connector, whatever the request
\* and whatever the backend does, returns an envelope (it raises nothing): a
\* response, or an error whose code is API_REQUEST_ERROR or PROCESSING_ERROR,
\* or, for a GraphQL connector only, GRAPHQL_ERROR.
C13_ConnectorAlwaysAnswers ==
    \A o \in Invoked :
        /\ "message_type" \in DOMAIN last.routed
        /\ \/ last.routed.message_type = "response"
           \/ /\ last.routed.message_type = "error"
              /\ last.routed.payload.data.error_code \in
                     (IF objs[o].api_type = "rest"
                      THEN {"API_REQUEST_ERROR", "PROCESSING_ERROR"}
                      ELSE {"API_REQUEST_ERROR", "PROCESSING_ERROR",
                            "GRAPHQL_ERROR"})

\* C13 witness: a REST connector got a 2xx answer whose body is not JSON and
\* returned a response envelope.
C13_Witness ==
    /\ last.op = "process_request"
    /\ \E o \in Invoked : objs[o].api_type = "rest"
    /\ Len(Transports) = 1
    /\ Transports[1].outcome = "not_json"
    /\ last.ret.message_type = "response"

\* C14: process_request of a request whose intent the connector has no
\* endpoint, query or mutation for returns a PROCESSING_ERROR error envelope
\* and makes no outbound call.
C14_UnknownIntentIsProcessingError ==
    \A o \in Invoked :
        ~HasMapping(objs[o], HandledIntent)
        => /\ IsErrorCode(last.routed, "PROCESSING_ERROR")
           /\ Transports = <<>>

\* C14 witness: a REST connector that has an endpoint for another intent
\* answered PROCESSING_ERROR.
C14_Witness ==
    /\ last.op = "process_request"
    /\ \E o \in Invoked : /\ objs[o].api_type = "rest"
                          /\ DOMAIN objs[o].endpoints # {}
                          /\ ~HasMapping(objs[o], HandledIntent)
    /\ IsErrorCode(last.ret, "PROCESSING_ERROR")

\* C19: when the backend result a GraphQL connector receives carries a
\* top-level errors field, with or without data, process_request returns a
\* GRAPHQL_ERROR error envelope and format_response is not invoked; it
\* returns a response only for a result without errors.
C19_GraphQLErrorsWin ==
    \A o \in Invoked :
        (objs[o].api_type = "graphql" /\ Len(Transports) = 1)
        => LET outcome == Transports[1].outcome
               has_body == outcome \in {"json_object", "json_array", "http_3xx",
                                        "graphql_errors", "errors_and_data"}
               has_errors == has_body /\ "errors" \in DOMAIN GraphQLBody(outcome)
           IN /\ has_errors => /\ IsErrorCode(last.routed, "GRAPHQL_ERROR")
                               /\ FormatResponses = <<>>
              /\ last.routed.message_type = "response" => has_body /\ ~has_errors

\* C19 witness: a GraphQL backend answered with errors and data, and the
\* connector returned GRAPHQL_ERROR.
C19_Witness ==
    /\ \E o \in Invoked : objs[o].api_type = "graphql"
    /\ Len(Transports) = 1
    /\ Transports[1].outcome = "errors_and_data"
    /\ IsErrorCode(last.routed, "GRAPHQL_ERROR")

\* C20: when the outbound call of a REST or GraphQL connector fails (network
\* failure or non-2xx status), process_request returns an API_REQUEST_ERROR
\* error envelope, never PROCESSING_ERROR and never a response, format_response
\* is not invoked, and when the backend answered, the details carry its status
\* code and body.
C20_TransportFailureIsApiRequestError ==
    \A o \in Invoked :
        (/\ Len(Transports) = 1
         /\ Transports[1].outcome \in {"http_error", "network_error", "http_3xx"})
        => /\ IsErrorCode(last.routed, "API_REQUEST_ERROR")
           /\ FormatResponses = <<>>
           /\ {"status_code", "response_text"}
                  \subseteq DOMAIN last.routed.payload.data.details
           /\ Transports[1].outcome = "http_error"
                  => /\ last.routed.payload.data.details.status_code = "500"
                     /\ last.routed.payload.data.details.response_text = "body"

(***************************************************************************)
(* Properties of format_request.  In a state reached by a direct call of   *)
(* format_request, last.message is the request, FormatConn the connector   *)
(* and FormatResult what the call returned or raised.                      *)
(***************************************************************************)
IsFormatCall == last.op = "format_request"
FormatConn == objs[last.log[1].conn]
FormatResult == last.log[1].result
FormatIntent == last.message.payload.intent
FormatParameters == last.message.payload.parameters

\* The connector injects its api key into the query.
HasQueryKey(c) ==
    /\ c.auth_type = "api_key"
    /\ "key_location" \in DOMAIN c.auth_params
    /\ c.auth_params.key_location = "query"

Items(d) == {d[k] : k \in DOMAIN d}

\* The parameters under their API-side names.
Renamed(mapping, parameters) ==
    {[key |-> IF \E e \in Items(mapping) : e.key = p.key
              THEN (CHOOSE e \in Items(mapping) : e.key = p.key).val
              ELSE p.key,
      val |-> p.val] : p \in Items(parameters)}

\* The ways to pick one value per name.
Picks(pairs) ==
    {f \in [{p.key : p \in pairs} -> {p.val : p \in pairs}] :
         \A n \in DOMAIN f : [key |-> n, val |-> f[n]] \in pairs}

PlaceholdersOf(template) ==
    {template[k].text : k \in {j \in DOMAIN template : template[j].ph}}

\* The template with every placeholder that names an argument of f replaced
\* by the argument's value.
RECURSIVE Filled(_, _)
Filled(template, f) ==
    IF Len(template) = 0 THEN <<>>
    ELSE (IF Head(template).ph /\ Head(template).text \in DOMAIN f
          THEN f[Head(template).text] ELSE <<Head(template)>>)
         \o Filled(Tail(template), f)

\* The dict of parameters a REST request carries, in the query or the body.
Carried(request) ==
    IF Len(request.json) > 0 THEN request.json[1] ELSE request.params[1]

\* C15: REST format_request renames each parameter that is a key of the
\* mapping to its API-side name and keeps the others; every resulting
\* parameter whose name is a {placeholder} of the endpoint template has its
\* value put in the path and leaves the parameter set; every other resulting
\* parameter remains.  (Read on connectors that add no key to the query.)
C15_MappingAndPathSubstitution ==
    (/\ IsFormatCall
     /\ FormatConn.api_type = "rest"
     /\ FormatResult.ok
     /\ ~HasQueryKey(FormatConn))
    => LET info == FormatConn.endpoints[FormatIntent]
           pairs == Renamed(info.params_mapping, FormatParameters)
           in_path == {p.key : p \in pairs} \cap PlaceholdersOf(info.endpoint)
       IN \E f \in Picks(pairs) :
              /\ FormatResult.value.url =
                     RStripSlash(FormatConn.base_url) \o <<Lit("/")>>
                         \o LStripSlash(Filled(info.endpoint,
                                               [n \in in_path |-> f[n]]))
              /\ Items(Carried(FormatResult.value)) =
                     {[key |-> n, val |-> f[n]] : n \in DOMAIN f \ in_path}

\* The name and the value of the key a connector is configured with.
KeyName(c) == IF "key_name" \in DOMAIN c.auth_params THEN c.auth_params.key_name ELSE "api_key"
KeyValue(c) == IF "key_value" \in DOMAIN c.auth_params THEN c.auth_params.key_value ELSE ""

\* GET or DELETE in any letter case.
IsGetOrDelete(method) == method \in {"GET", "get", "Get", "DELETE", "delete", "Delete"}

\* What the code's mapping and path substitution leave of the parameters.
Remaining ==
    LET info == FormatConn.endpoints[FormatIntent]
        mapped == MapParameters(info.params_mapping, FormatParameters)
    IN SubstitutePath(mapped, 1, info.endpoint, mapped).params

\* C16: the method an endpoint is registered with counts as GET or DELETE in
\* any letter case; REST format_request puts the parameters left after path
\* substitution in the query for GET and DELETE and in the body for every
\* other method, never in both: the request holds no body in the first case
\* and the query holds nothing but the connector's own key in the second.
\* (A query entry named like the connector's query key carries the key.)
C16_PlacementByMethod ==
    /\ last.op = "register_endpoint"
           => (objs[last.log[1].conn].endpoints[last.log[1].intent].method
                   \in {"GET", "DELETE"}
               <=> IsGetOrDelete(last.log[1].method))
    /\ (IsFormatCall /\ FormatConn.api_type = "rest" /\ FormatResult.ok)
           => LET request == FormatResult.value
                  own == IF HasQueryKey(FormatConn) THEN {KeyName(FormatConn)} ELSE {}
              IN IF FormatConn.endpoints[FormatIntent].method \in {"GET", "DELETE"}
                 THEN /\ request.json = <<>>
                      /\ Len(request.params) = 1
                      /\ \A p \in Items(Remaining) :
                             p.key \in own \/ p \in Items(request.params[1])
                      /\ \A p \in Items(request.params[1]) :
                             p.key \in own \/ p \in Items(Remaining)
                 ELSE /\ request.json = <<Remaining>>
                      /\ \A q \in Items(request.params) :
                             \A p \in Items(q) : p.key \in own

\* format_request ran on an endpoint registered as "Delete" or "put" and
\* placed a parameter that path substitution left.
C16_Witness ==
    /\ IsFormatCall
    /\ FormatConn.api_type = "rest"
    /\ FormatResult.ok
    /\ FormatConn.endpoints[FormatIntent].method \in {"DELETE", "PUT"}
    /\ Remaining # <<>>
    /\ Items(Remaining) \subseteq Items(Carried(FormatResult.value))

\* C17: when a REST connector's auth type is api_key and its key_location is
\* "query", every request format_request returns, whatever the method,
\* carries the pair key_name = key_value in the query parameters, next to
\* the request's parameters of other names when the method sends them in the
\* query; for every other auth type or key_location the query parameters are
\* the request's own parameters and nothing else.
C17_QueryKeyInjection ==
    (IsFormatCall /\ FormatConn.api_type = "rest" /\ FormatResult.ok)
    => LET request == FormatResult.value
           in_query == FormatConn.endpoints[FormatIntent].method \in {"GET", "DELETE"}
           pair == [key |-> KeyName(FormatConn), val |-> StrVal(KeyValue(FormatConn))]
       IN IF HasQueryKey(FormatConn)
          THEN /\ Len(request.params) = 1
               /\ pair \in Items(request.params[1])
               /\ in_query => \A p \in Items(Remaining) :
                                  p.key = pair.key \/ p \in Items(request.params[1])
          ELSE request.params = IF in_query THEN <<Remaining>> ELSE <<>>

\* format_request ran on a connector with a configured key in the query, on
\* an endpoint whose method sends the parameters in the body, and the query
\* holds the key.
C17_Witness ==
    /\ IsFormatCall
    /\ FormatConn.api_type = "rest"
    /\ FormatResult.ok
    /\ HasQueryKey(FormatConn)
    /\ KeyName(FormatConn) = "k"
    /\ FormatConn.endpoints[FormatIntent].method = "POST"
    /\ FormatResult.value.params = <<(<<[key |-> "k", val |-> StrVal("s")]>>)>>
    /\ Len(FormatResult.value.json) = 1

\* The request carries the operation text and, as variables, the parameters
\* under the names the mapping gives them.
CarriesOperation(request, text, mapping) ==
    /\ request.json[1].query = text
    /\ \E f \in Picks(Renamed(mapping, FormatParameters)) :
           Items(request.json[1].variables) =
               {[key |-> n, val |-> f[n]] : n \in DOMAIN f}

\* C18: GraphQL format_request fails with a configuration error (ValueError)
\* for an intent in neither table and returns a request otherwise; for an
\* intent held by the mutation table only the operation text is the
\* registered mutation, for one held by the query table only the registered
\* query; every request returned is one POST whose body holds the operation
\* text and the variables, and nothing goes in the query string.
C18_GraphQLDispatch ==
    (IsFormatCall /\ FormatConn.api_type = "graphql")
    => LET is_query == FormatIntent \in DOMAIN FormatConn.queries
           is_mutation == FormatIntent \in DOMAIN FormatConn.mutations
           request == FormatResult.value
       IN /\ FormatResult.ok <=> (is_query \/ is_mutation)
          /\ ~FormatResult.ok => FormatResult.exception_type = "ValueError"
          /\ FormatResult.ok
                 => /\ request.method = "POST"
                    /\ request.params = <<>>
                    /\ Len(request.json) = 1
                    /\ DOMAIN request.json[1] = {"query", "variables"}
          /\ (is_mutation /\ ~is_query)
                 => CarriesOperation(request,
                                     FormatConn.mutations[FormatIntent].mutation,
                                     FormatConn.mutations[FormatIntent].params_mapping)
          /\ (is_query /\ ~is_mutation)
                 => CarriesOperation(request,
                                     FormatConn.queries[FormatIntent].query,
                                     FormatConn.queries[FormatIntent].params_mapping)

\* format_request ran on a GraphQL connector for an intent registered as a
\* mutation only, with a mapped parameter, and returned the mutation.
C18_Witness ==
    /\ IsFormatCall
    /\ FormatConn.api_type = "graphql"
    /\ FormatIntent \in DOMAIN FormatConn.mutations \ DOMAIN FormatConn.queries
    /\ FormatResult.ok
    /\ FormatResult.value.json[1].query = MutationInfo.mutation
    /\ [key |-> "id", val |-> StrVal("42")] \in Items(FormatResult.value.json[1].variables)

(***************************************************************************)
(* Properties of whole operations.                                         *)
(***************************************************************************)
\* The envelopes an operation held or built: its argument, what the
\* middleware handed on, what route returned and what the operation returned.
Envelopes ==
    {e \in {last.message, last.handled, last.routed, last.ret} : ~IsAbsent(e)}

IsOutputOf(mw, e_id, out_id, earlier) ==
    IF mw.kind = "pass" THEN out_id = e_id ELSE out_id \notin earlier

\* The destination and intent an envelope has after middleware 1..k.
RECURSIVE AddressAfter(_, _)
AddressAfter(k, message) ==
    IF k = 0 THEN [destination |-> message.destination, intent |-> message.payload.intent]
    ELSE IF middleware[k].kind = "redirect"
         THEN [destination |-> middleware[k].destination, intent |-> middleware[k].intent]
         ELSE AddressAfter(k - 1, message)

\* A route through a pipeline in which no middleware returns absent: the
\* middleware ran once each in pipeline order, each on its predecessor's
\* output, and when a handler resolves it ran once, on the last output, and
\* route returned what it returned.
PipelineInOrder ==
    (/\ last.op = "route"
     /\ \A j \in 1..Len(middleware) : middleware[j].kind # "drop")
    => LET n == Len(middleware)
           arg(k) == last.log[k].arg
           address == AddressAfter(n, last.message)
       IN /\ Len(last.log) >= n
          /\ \A k \in 1..n :
                 /\ last.log[k].ev = "middleware"
                 /\ last.log[k].index = k
          /\ n > 0 => arg(1) = last.message.message_id
          /\ \A k \in 1..(n - 1) :
                 IsOutputOf(middleware[k], arg(k), arg(k + 1),
                            {arg(j) : j \in 1..k})
          /\ ~IsAbsent(last.handled)
          /\ IF n = 0 THEN last.handled = last.message
             ELSE IsOutputOf(middleware[n], arg(n), last.handled.message_id,
                             {arg(j) : j \in 1..n})
          /\ HandledDest = address.destination
          /\ HandledIntent = address.intent
          /\ HasEntry(address.destination, address.intent)
                 => LET handler == Entry(address.destination, address.intent) IN
                    /\ SubSeq(last.log, n + 1, Len(last.log)) =
                           <<HandlerEvent(handler, last.handled)>>
                    /\ IF HandlerFnReturns(handler.id) = "absent"
                       THEN IsAbsent(last.ret)
                       ELSE /\ ~IsAbsent(last.ret)
                            /\ last.ret.message_type = "response"
                            /\ last.ret.correlation_id = last.handled.message_id
                            /\ last.ret.payload.data = [handled_by |-> handler.id]

\* C22: register_middleware appends to the pipeline, so pipeline order is
\* registration order; route invokes the middleware in that order, each on
\* the envelope its predecessor returned (the first on route's argument);
\* when none returns absent and a handler resolves, that handler is invoked
\* exactly once with the last middleware's output and route returns exactly
\* what the handler returned.
C22_MiddlewareOrder ==
    [][/\ middleware' # middleware
           => \E mw \in MiddlewareFns : middleware' = middleware \o <<mw>>
       /\ PipelineInOrder']_vars

\* A route through two different middleware, the first substituting a new
\* envelope, ran the handler of the substituted address and got its response.
C22_Witness ==
    /\ last.op = "route"
    /\ Len(middleware) = 2
    /\ middleware[1].kind = "redirect"
    /\ middleware[2].kind = "pass"
    /\ last.message.destination # HandledDest
    /\ Len(HandlerEvents(last.log)) = 1
    /\ ~IsAbsent(last.ret)
    /\ last.ret.message_type = "response"

\* C23: every process_request of a REST or GraphQL connector, called directly
\* or reached by call_api, makes at most one outbound call, whatever the
\* backend makes of it: one when the connector has a mapping for the intent,
\* by that connector, and none when format_request fails.
C23_SingleAttempt ==
    \A o \in Invoked :
        /\ Len(Transports) <= 1
        /\ Len(Transports) = IF HasMapping(objs[o], HandledIntent) THEN 1 ELSE 0
        /\ \A k \in 1..Len(Transports) : Transports[k].conn = o

\* call_api reached a REST connector whose one outbound call failed, at the
\* network or with an error status.
C23_Witness ==
    /\ last.op = "call_api"
    /\ \E o \in Invoked : objs[o].api_type = "rest"
    /\ Len(Transports) = 1
    /\ Transports[1].outcome \in {"http_error", "network_error"}
    /\ IsErrorCode(last.ret, "API_REQUEST_ERROR")

\* The handler route resolves for the envelope the pipeline handed on raises.
RaisingResolved ==
    /\ Dispatched
    /\ HasEntry(HandledDest, HandledIntent)
    /\ Entry(HandledDest, HandledIntent) = RaisingHandler

\* C24: when the handler route resolves raises, route raises the same
\* failure, and so does call_api, which returns no envelope (no NO_RESPONSE
\* error either); the handler ran once, and the call leaves the route table
\* and the middleware list as they were.
C24_HandlerRaisePropagates ==
    [][/\ RaisingResolved'
           => /\ IsRaise(last'.ret)
              /\ last'.ret = Raised("RuntimeError", "handler failed")
              /\ last'.routed = last'.ret
              /\ HandlerEvents(last'.log) =
                     <<HandlerEvent(RaisingHandler, last'.handled)>>
       /\ IsCall' => /\ routes' = routes
                     /\ middleware' = middleware]_vars

\* call_api resolved a raising handler behind a middleware.
C24_Witness ==
    /\ last.op = "call_api"
    /\ RaisingResolved
    /\ Len(middleware) > 0
    /\ IsRaise(last.ret)

(***************************************************************************)
(* Properties of the registry and the router together.                     *)
(***************************************************************************)
\* The handler the router holds for ("api.<name>", "*"), as an Optional.
Delegate(name) ==
    IF HasEntry(ApiDest(name), "*") THEN <<Entry(ApiDest(name), "*")>> ELSE <<>>

\* The connector get_connector(name) returns is the one the router's
\* ("api.<name>", "*") handler delegates to.
RegistryMatchesRouter(name) ==
    \A k \in 1..Len(connectors) :
        connectors[k].key = name
        => Delegate(name) = <<[kind |-> "connector", conn |-> connectors[k].val]>>

\* C25: with register_connector calls running concurrently with each other
\* and with route and get_connector, no lookup runs between a call's write to
\* the registry table and its handler registration, and in every state the
\* connector get_connector(name) returns is the one the router's
\* ("api.<name>", "*") handler delegates to, also once all calls have finished.
C25_RegistrationExcludesLookup ==
    /\ last.op \in {"get_connector", "route", "call_api"} => pending = {}
    /\ \A n \in Names : RegistryMatchesRouter(n)

\* C26: after any sequence of register_query and register_mutation calls no
\* intent of a GraphQL connector is held by both its query table and its
\* mutation table.
C26_ExclusiveNamespaces ==
    \A o \in DOMAIN objs :
        objs[o].api_type = "graphql"
        => DOMAIN objs[o].queries \cap DOMAIN objs[o].mutations = {}


\* The request carries the pair name = value in its headers, in its query.
KeyInHeaders(request, name, value) ==
    /\ name \in DOMAIN request.headers
    /\ request.headers[name] = value
KeyInQuery(request, name, value) ==
    \E q \in Items(request.params) : [key |-> name, val |-> StrVal(value)] \in Items(q)

\* C27: when format_request runs on an api_key connector, REST or GraphQL,
\* right after a set_auth call on it, the request it returns carries the
\* configured key in the location that call's key_location chose (header
\* when the call gave none) and not in the other: in the headers and not in
\* the query for "header", in the query and not in the headers for "query".
C27_KeyInOneLocation ==
    [][(/\ last.op = "set_auth"
        /\ objs[last.log[1].conn].auth_type = "api_key"
        /\ IsFormatCall'
        /\ last'.log[1].conn = last.log[1].conn
        /\ FormatResult'.ok)
       => LET request == FormatResult'.value
              name == KeyName(objs[last.log[1].conn])
              value == KeyValue(objs[last.log[1].conn])
          IN IF KwGet(last.log[1].kwargs, "key_location", "header") = "header"
             THEN /\ KeyInHeaders(request, name, value)
                  /\ ~KeyInQuery(request, name, value)
             ELSE /\ KeyInQuery(request, name, value)
                  /\ ~KeyInHeaders(request, name, value)]_vars


\* C28: after any sequence of register_connector calls, for every name in
\* list_connectors the router holds an entry for ("api.<name>", "*") and its
\* handler delegates to the connector get_connector(name) returns, also
\* after a name was registered again with another connector.
C28_RouterFollowsRegistry ==
    \A k \in 1..Len(list_connectors(connectors)) :
        LET name == list_connectors(connectors)[k] IN
        /\ Len(get_connector(connectors, name)) = 1
        /\ HasEntry(ApiDest(name), "*")
        /\ Entry(ApiDest(name), "*")
               = [kind |-> "connector", conn |-> get_connector(connectors, name)[1]]

\* A name was registered again with another connector object and the router
\* delegates to the new one, not to the replaced one.
C28_Witness ==
    /\ last.op = "register_connector"
    /\ Len(RegisteredConnector.replaced) = 1
    /\ RegisteredConnector.replaced[1] # RegisteredConnector.conn
    /\ Entry(ApiDest(objs[RegisteredConnector.conn].name), "*").conn
           = RegisteredConnector.conn
    /\ Entry(ApiDest(objs[RegisteredConnector.conn].name), "*").conn
           # RegisteredConnector.replaced[1]


\* The source an envelope has after middleware 1..k.
RECURSIVE SourceAfter(_, _)
SourceAfter(k, message) ==
    IF k = 0 THEN message.source
    ELSE IF middleware[k].kind = "redirect" THEN middleware[k].source
         ELSE SourceAfter(k - 1, message)

\* A middleware of the pipeline substitutes a new envelope.
Substituted == \E j \in 1..Len(middleware) : middleware[j].kind = "redirect"

FormatMapping ==
    IF FormatConn.api_type = "rest"
    THEN FormatConn.endpoints[FormatIntent].params_mapping
    ELSE IF FormatIntent \in DOMAIN FormatConn.queries
         THEN FormatConn.queries[FormatIntent].params_mapping
         ELSE FormatConn.mutations[FormatIntent].params_mapping
FormatPlaceholders ==
    IF FormatConn.api_type = "rest"
    THEN PlaceholdersOf(FormatConn.endpoints[FormatIntent].endpoint)
    ELSE {}
Outbound ==
    IF FormatConn.api_type = "rest"
    THEN Carried(FormatResult.value)
    ELSE FormatResult.value.json[1].variables
EntriesNamed(d, n) == {k \in DOMAIN d : d[k].key = n}

\* C30: when REST or GraphQL format_request is given both a parameter m that
\* the mapping renames to a and a parameter named a that the mapping does
\* not rename, the outbound parameters (the GraphQL variables) hold exactly
\* one entry named a and it carries the value given for a; when a is a
\* placeholder of the REST path it is that value that goes into the path and
\* no entry named a remains.  A name the mapping renames is the name of an
\* outbound entry only when a parameter given is renamed to it.
C30_PassthroughOverwritesMapped ==
    (IsFormatCall /\ FormatResult.ok)
    => /\ \A e \in Items(FormatMapping) :
              (/\ DictHas(FormatParameters, e.key)
               /\ DictHas(FormatParameters, e.val)
               /\ ~DictHas(FormatMapping, e.val))
              => IF e.val \in FormatPlaceholders
                 THEN /\ EntriesNamed(Outbound, e.val) = {}
                      /\ FormatResult.value.url
                             = RStripSlash(FormatConn.base_url) \o <<Lit("/")>>
                               \o Filled(FormatConn.endpoints[FormatIntent].endpoint,
                                         (e.val :> DictGet(FormatParameters, e.val)))
                 ELSE /\ Cardinality(EntriesNamed(Outbound, e.val)) = 1
                      /\ DictGet(Outbound, e.val) = DictGet(FormatParameters, e.val)
       /\ \A e \in Items(FormatMapping) :
              EntriesNamed(Outbound, e.key) # {}
              => \E e2 \in Items(FormatMapping) :
                     e2.val = e.key /\ DictHas(FormatParameters, e2.key)

\* REST format_request was given item_id (renamed to id) and id, for a path
\* without placeholders, and the request carries id with the value given
\* for id and no item_id.
C30_Witness ==
    /\ IsFormatCall
    /\ FormatConn.api_type = "rest"
    /\ FormatResult.ok
    /\ FormatPlaceholders = {}
    /\ DictHas(FormatMapping, "item_id")
    /\ DictHas(FormatParameters, "item_id")
    /\ DictHas(FormatParameters, "id")
    /\ DictGet(FormatParameters, "item_id") = StrVal("42")
    /\ DictGet(FormatParameters, "id") = StrVal("7")
    /\ Items(Outbound) \cap {p \in Items(Outbound) : p.key \in {"id", "item_id"}}
           = {[key |-> "id", val |-> StrVal("7")]}

====
